---- MODULE Spec2Model ----
(***************************************************************************)
(* Model of the F1 dashboard (src/f1_dashboard.py): the duration           *)
(* formatting helpers of the Lap Times and Race Results pages and the      *)
(* penalty extraction / message categorisation of the Race Control page.   *)
(*                                                                         *)
(* A Python str is modelled as a sequence of one-character strings, so     *)
(* that substring tests, lower-casing and the regular expressions of the   *)
(* source are computed character by character.                            *)
(***************************************************************************)
EXTENDS Integers, Sequences, FiniteSets, TLC

(***************************************************************************)
(* Characters and strings                                                  *)
(***************************************************************************)
DigitChars == <<"0","1","2","3","4","5","6","7","8","9">>

UpperChars == {"A","B","C","D","E","F","G","H","I","J","K","L","M",
               "N","O","P","Q","R","S","T","U","V","W","X","Y","Z"}

\* str.lower() on the letters of the alphabet (a record is a function on
\* the one-character strings "A".."Z")
LowerOf == [A |-> "a", B |-> "b", C |-> "c", D |-> "d", E |-> "e", F |-> "f",
            G |-> "g", H |-> "h", I |-> "i", J |-> "j", K |-> "k", L |-> "l",
            M |-> "m", N |-> "n", O |-> "o", P |-> "p", Q |-> "q", R |-> "r",
            S |-> "s", T |-> "t", U |-> "u", V |-> "v", W |-> "w", X |-> "x",
            Y |-> "y", Z |-> "z"]

LowerChars == {LowerOf[c] : c \in UpperChars}

\* regex classes \d, [A-Z], [a-z], \s
IsDigit(c) == c \in {DigitChars[i] : i \in 1..10}
IsUpper(c) == c \in UpperChars
IsLower(c) == c \in LowerChars
IsSpace(c) == c = " "

\* str.lower()
lower(s) == [i \in 1..Len(s) |-> IF s[i] \in UpperChars THEN LowerOf[s[i]] ELSE s[i]]

\* Python's  word in s  on strings: word occurs as a substring of s
Contains(s, word) ==
    \E i \in 1..(Len(s) - Len(word) + 1) : \A j \in 1..Len(word) : s[i + j - 1] = word[j]

\* any(word in s for word in words)
ContainsAny(s, words) == \E k \in 1..Len(words) : Contains(s, words[k])

\* the literal lit occurs in s at position i
LitAt(s, i, lit) ==
    /\ i >= 1
    /\ i + Len(lit) - 1 <= Len(s)
    /\ \A j \in 1..Len(lit) : s[i + j - 1] = lit[j]

\* the index after the longest run of characters of a class that starts at i
\* (a greedy  X*  of a regular expression); i itself when the run is empty
RECURSIVE DigitRunEnd(_, _)
DigitRunEnd(s, i) == IF i <= Len(s) /\ IsDigit(s[i]) THEN DigitRunEnd(s, i + 1) ELSE i

RECURSIVE LowerRunEnd(_, _)
LowerRunEnd(s, i) == IF i <= Len(s) /\ IsLower(s[i]) THEN LowerRunEnd(s, i + 1) ELSE i

RECURSIVE SpaceRunEnd(_, _)
SpaceRunEnd(s, i) == IF i <= Len(s) /\ IsSpace(s[i]) THEN SpaceRunEnd(s, i + 1) ELSE i

\* str(n) of a non-negative int
RECURSIVE DecStr(_)
DecStr(n) == IF n < 10 THEN <<DigitChars[n + 1]>>
             ELSE DecStr(n \div 10) \o <<DigitChars[(n % 10) + 1]>>

\* f"{n}" of an int
IntStr(n) == IF n < 0 THEN <<"-">> \o DecStr(-n) ELSE DecStr(n)

\* zero padding on the left to a minimum width; the sign stays in front
\* (Python's  0w  format flag)
RECURSIVE ZeroPad(_, _)
ZeroPad(t, width) ==
    IF Len(t) >= width THEN t
    ELSE IF Len(t) > 0 /\ t[1] = "-" THEN <<"-">> \o ZeroPad(Tail(t), width - 1)
    ELSE ZeroPad(<<"0">> \o t, width)

(***************************************************************************)
(* Optional values: a missing value (NaN / NaT / absent column) is the     *)
(* empty tuple, a present value v is the one-element tuple <<v>>.          *)
(***************************************************************************)
NaN == <<>>
Some(v) == <<v>>
isna(x) == x = NaN
notna(x) == x # NaN
Val(x) == x[1]

(***************************************************************************)
(* Duration formatting (Lap Times page, Race Results page)                 *)
(*                                                                         *)
(* A Timedelta is an integer number of ticks; TicksPerMs ticks make one    *)
(* millisecond, so total_seconds() carries sub-millisecond precision.      *)
(***************************************************************************)
TicksPerMs == 5
TicksPerSecond == 1000 * TicksPerMs

\* mutant of Fixed3: the format .3f, without the zero flag and the width
Fixed3_unpadded(seconds) ==
    LET ms == (2 * seconds + TicksPerMs) \div (2 * TicksPerMs)
    IN  DecStr(ms \div 1000) \o <<".">> \o ZeroPad(DecStr(ms % 1000), 3)

\* f"{seconds:06.3f}": seconds (in ticks) rounded to the nearest millisecond,
\* printed with three fractional digits and zero-padded to width 6
Fixed3(seconds) ==
    LET ms == (2 * seconds + TicksPerMs) \div (2 * TicksPerMs)
    IN  ZeroPad(DecStr(ms \div 1000) \o <<".">> \o ZeroPad(DecStr(ms % 1000), 3), 6)

NA == <<"N","/","A">>

\* mutant of format_laptime: the minutes start again at every full hour
format_laptime_minutes_of_hour(timedelta_obj) ==
    IF isna(timedelta_obj) THEN NA
    ELSE LET total_seconds == Val(timedelta_obj)
             minutes == (total_seconds % (3600 * TicksPerSecond)) \div (60 * TicksPerSecond)
             seconds == total_seconds % (60 * TicksPerSecond)
         IN  IntStr(minutes) \o <<":">> \o Fixed3(seconds)

\* mutant of format_laptime: 'if not timedelta_obj' in place of pd.isna, which
\* takes the zero duration for a missing one
format_laptime_falsy(timedelta_obj) ==
    IF isna(timedelta_obj) \/ Val(timedelta_obj) = 0 THEN NA
    ELSE LET total_seconds == Val(timedelta_obj)
             minutes == total_seconds \div (60 * TicksPerSecond)
             seconds == total_seconds % (60 * TicksPerSecond)
         IN  IntStr(minutes) \o <<":">> \o Fixed3(seconds)

format_laptime(timedelta_obj) ==
    IF isna(timedelta_obj) THEN NA
    ELSE LET total_seconds == Val(timedelta_obj)
             minutes == total_seconds \div (60 * TicksPerSecond)
             seconds == total_seconds % (60 * TicksPerSecond)
         IN  IntStr(minutes) \o <<":">> \o Fixed3(seconds)

\* mutant of format_race_time: the minutes are those of the whole duration
format_race_time_total_minutes(time_obj) ==
    IF isna(time_obj) THEN NA
    ELSE LET total_seconds == Val(time_obj)
             hours == total_seconds \div (3600 * TicksPerSecond)
             minutes == total_seconds \div (60 * TicksPerSecond)
             seconds == total_seconds % (60 * TicksPerSecond)
         IN  IF hours > 0
             THEN IntStr(hours) \o <<":">> \o ZeroPad(IntStr(minutes), 2)
                      \o <<":">> \o Fixed3(seconds)
             ELSE IntStr(minutes) \o <<":">> \o Fixed3(seconds)

\* mutant of format_race_time: the hours are shown also when they are zero
format_race_time_always_hours(time_obj) ==
    IF isna(time_obj) THEN NA
    ELSE LET total_seconds == Val(time_obj)
             hours == total_seconds \div (3600 * TicksPerSecond)
             minutes == (total_seconds % (3600 * TicksPerSecond)) \div (60 * TicksPerSecond)
             seconds == total_seconds % (60 * TicksPerSecond)
         IN  IntStr(hours) \o <<":">> \o ZeroPad(IntStr(minutes), 2)
                 \o <<":">> \o Fixed3(seconds)

format_race_time(time_obj) ==
    IF isna(time_obj) THEN NA
    ELSE LET total_seconds == Val(time_obj)
             hours == total_seconds \div (3600 * TicksPerSecond)
             minutes == (total_seconds % (3600 * TicksPerSecond)) \div (60 * TicksPerSecond)
             seconds == total_seconds % (60 * TicksPerSecond)
         IN  IF hours > 0
             THEN IntStr(hours) \o <<":">> \o ZeroPad(IntStr(minutes), 2)
                      \o <<":">> \o Fixed3(seconds)
             ELSE IntStr(minutes) \o <<":">> \o Fixed3(seconds)

(***************************************************************************)
(* Race Control page: regular expressions of the penalty extraction        *)
(***************************************************************************)
Unknown == <<"U","n","k","n","o","w","n">>

\* the least element of a non-empty set of positions
Min(S) == CHOOSE m \in S : \A n \in S : m <= n

\* group of  car (\d+)|#(\d+)|no\.?\s*(\d+)  matched at position i of message,
\* <<>> when the expression does not match there
CarGroupAt(message, i) ==
    IF LitAt(message, i, <<"c","a","r"," ">>)
    THEN SubSeq(message, i + 4, DigitRunEnd(message, i + 4) - 1)
    ELSE IF LitAt(message, i, <<"#">>)
    THEN SubSeq(message, i + 1, DigitRunEnd(message, i + 1) - 1)
    ELSE IF LitAt(message, i, <<"n","o">>)
    THEN LET j == IF LitAt(message, i + 2, <<".">>) THEN i + 3 ELSE i + 2
             k == SpaceRunEnd(message, j)
         IN  SubSeq(message, k, DigitRunEnd(message, k) - 1)
    ELSE <<>>

\* the greatest element of a non-empty set of positions
Max(S) == CHOOSE m \in S : \A n \in S : m >= n

\* mutant of car_match: the last match of the text instead of the first
car_match_last(message) ==
    LET hits == {i \in 1..Len(message) : CarGroupAt(message, i) # <<>>}
    IN  IF hits = {} THEN NaN ELSE Some(CarGroupAt(message, Max(hits)))

\* re.search(r'car (\d+)|#(\d+)|no\.?\s*(\d+)', message): the leftmost match;
\* car_match.group(1) or car_match.group(2) or car_match.group(3)
car_match(message) ==
    LET hits == {i \in 1..Len(message) : CarGroupAt(message, i) # <<>>}
    IN  IF hits = {} THEN NaN ELSE Some(CarGroupAt(message, Min(hits)))

\* index after a match of  ([A-Z][a-z]+)\s+([A-Z][a-z]+)  at position i,
\* 0 when the expression does not match there
FirstLastEnd(s, i) ==
    IF ~IsUpper(s[i]) THEN 0
    ELSE LET a == LowerRunEnd(s, i + 1)
             b == SpaceRunEnd(s, a)
         IN  IF a = i + 1 \/ b = a \/ b > Len(s) THEN 0
             ELSE IF ~IsUpper(s[b]) THEN 0
             ELSE LET c == LowerRunEnd(s, b + 1)
                  IN  IF c = b + 1 THEN 0 ELSE c

\* index after a match of  ([A-Z]{3})  at position i, 0 when none
CodeEnd(s, i) ==
    IF i + 2 <= Len(s) /\ IsUpper(s[i]) /\ IsUpper(s[i + 1]) /\ IsUpper(s[i + 2])
    THEN i + 3 ELSE 0

\* mutant of driver_patterns: the three-letter code is tried first
driver_patterns_code_first == <<"Three letter code", "First Last">>

driver_patterns == <<"First Last", "Three letter code">>

PatternEnd(pattern, s, i) ==
    IF pattern = "First Last" THEN FirstLastEnd(s, i) ELSE CodeEnd(s, i)

\* re.search(pattern, row['Message']).group(0), NaN when there is no match
driver_search(pattern, s) ==
    LET hits == {i \in 1..Len(s) : PatternEnd(pattern, s, i) # 0}
    IN  IF hits = {} THEN NaN
        ELSE Some(SubSeq(s, Min(hits), PatternEnd(pattern, s, Min(hits)) - 1))

\* mutant of lap_patterns: the compact form l(\d+) stands first in the list
lap_patterns_compact_first ==
    << [lit |-> <<"l">>, ws |-> FALSE],
       [lit |-> <<"l","a","p"," ">>, ws |-> FALSE],
       [lit |-> <<"o","n"," ","l","a","p"," ">>, ws |-> FALSE],
       [lit |-> <<"a","t"," ","l","a","p"," ">>, ws |-> FALSE],
       [lit |-> <<"d","u","r","i","n","g"," ","l","a","p"," ">>, ws |-> FALSE],
       [lit |-> <<"i","n"," ","l","a","p"," ">>, ws |-> FALSE],
       [lit |-> <<"l","a","p">>, ws |-> TRUE] >>

\* lap_patterns: a literal, then (\d+); ws marks the pattern  lap\s*(\d+)
lap_patterns ==
    << [lit |-> <<"l","a","p"," ">>, ws |-> FALSE],
       [lit |-> <<"o","n"," ","l","a","p"," ">>, ws |-> FALSE],
       [lit |-> <<"a","t"," ","l","a","p"," ">>, ws |-> FALSE],
       [lit |-> <<"d","u","r","i","n","g"," ","l","a","p"," ">>, ws |-> FALSE],
       [lit |-> <<"i","n"," ","l","a","p"," ">>, ws |-> FALSE],
       [lit |-> <<"l","a","p">>, ws |-> TRUE],
       [lit |-> <<"l">>, ws |-> FALSE] >>

\* group(1) of a lap pattern matched at position i, <<>> when no match there
LapGroupAt(pattern, message, i) ==
    IF ~LitAt(message, i, pattern.lit) THEN <<>>
    ELSE LET j == i + Len(pattern.lit)
             k == IF pattern.ws THEN SpaceRunEnd(message, j) ELSE j
         IN  SubSeq(message, k, DigitRunEnd(message, k) - 1)

\* re.search(pattern, message): group(1) of the leftmost match, NaN when none
lap_search(pattern, message) ==
    LET hits == {i \in 1..Len(message) : LapGroupAt(pattern, message, i) # <<>>}
    IN  IF hits = {} THEN NaN ELSE Some(LapGroupAt(pattern, message, Min(hits)))

(***************************************************************************)
(* Race Control page: penalty extraction of one race control message       *)
(*                                                                         *)
(* A row of race_control_messages is [Message, Driver, CarNumber,          *)
(* SessionTime]; an absent column and a NaN cell are both NaN.  results is *)
(* a sequence of [DriverNumber, BroadcastName], laps a sequence of         *)
(* [LapNumber, LapStartTime].                                              *)
(***************************************************************************)
\* the words of the penalty check
penalty_words ==
    << <<"p","e","n","a","l","t","y">>,
       <<"p","e","n","a","l","i","s","e","d">>,
       <<"p","e","n","a","l","i","z","e","d">>,
       <<"t","i","m","e"," ","p","e","n","a","l","t","y">>,
       <<"g","r","i","d"," ","p","e","n","a","l","t","y">>,
       <<"r","e","p","r","i","m","a","n","d">> >>

\* mutant of is_penalty_message: the word list of categorize_message
is_penalty_message_category_words(row) ==
    ContainsAny(lower(row.Message),
                << <<"p","e","n","a","l","t","y">>,
                   <<"p","e","n","a","l","i","s","e","d">>,
                   <<"t","i","m","e"," ","p","e","n","a","l","t","y">>,
                   <<"g","r","i","d"," ","p","e","n","a","l","t","y">> >>)

\* any(word in message for word in [...]) on the lower-cased message
is_penalty_message(row) == ContainsAny(lower(row.Message), penalty_words)

\* the penalty_info dict as created
new_penalty_info(row) ==
    [Message |-> row.Message, Driver |-> Unknown, Car_Number |-> Unknown,
     Penalty_Type |-> "Unknown", Penalty_Details |-> row.Message, Lap |-> Unknown]

\* results[results['DriverNumber'] == number]
driver_rows(results, number) == SelectSeq(results, LAMBDA r : r.DriverNumber = number)

\* "Extract driver information": the Driver column, else the CarNumber column
\* resolved against results
driver_from_row(info, row, results) ==
    IF notna(row.Driver) THEN [info EXCEPT !.Driver = Val(row.Driver)]
    ELSE IF notna(row.CarNumber)
    THEN LET driver_match == driver_rows(results, Val(row.CarNumber))
         IN  [info EXCEPT !.Car_Number = Val(row.CarNumber),
                          !.Driver = IF driver_match # <<>>
                                     THEN driver_match[1].BroadcastName ELSE @]
    ELSE info

\* mutant of car_from_message: the text is searched whatever Car_Number holds
car_from_message_always(info, message, results) ==
    LET m == car_match(message)
    IN  IF isna(m) THEN info
        ELSE LET car_num == Val(m)
                 driver_match == driver_rows(results, car_num)
             IN  [info EXCEPT !.Car_Number = car_num,
                              !.Driver = IF driver_match # <<>>
                                         THEN driver_match[1].BroadcastName ELSE @]

\* "Extract car number from message if not found"
car_from_message(info, message, results) ==
    IF info.Car_Number # Unknown THEN info
    ELSE LET m == car_match(message)
         IN  IF isna(m) THEN info
             ELSE LET car_num == Val(m)
                      driver_match == driver_rows(results, car_num)
                  IN  [info EXCEPT !.Car_Number = car_num,
                                   !.Driver = IF driver_match # <<>>
                                              THEN driver_match[1].BroadcastName ELSE @]

\* the loop over driver_patterns: the first pattern that matches, with break
RECURSIVE first_driver_match(_, _)
first_driver_match(k, text) ==
    IF k > Len(driver_patterns) THEN NaN
    ELSE IF notna(driver_search(driver_patterns[k], text))
    THEN driver_search(driver_patterns[k], text)
    ELSE first_driver_match(k + 1, text)

\* "Extract driver name from message if not found" (on row['Message'] as given)
driver_from_message(info, row) ==
    IF info.Driver # Unknown THEN info
    ELSE LET m == first_driver_match(1, row.Message)
         IN  IF isna(m) THEN info ELSE [info EXCEPT !.Driver = Val(m)]

\* mutant of time_penalty_type: 10 seconds is tested before 5 seconds
time_penalty_type_ten_first(message) ==
    IF Contains(message, <<"1","0"," ","s","e","c">>) \/ Contains(message, <<"1","0","-","s","e","c">>)
    THEN "10 Second Time Penalty"
    ELSE IF Contains(message, <<"5"," ","s","e","c">>) \/ Contains(message, <<"5","-","s","e","c">>)
    THEN "5 Second Time Penalty"
    ELSE IF Contains(message, <<"3","0"," ","s","e","c">>) \/ Contains(message, <<"3","0","-","s","e","c">>)
    THEN "30 Second Time Penalty"
    ELSE "Time Penalty"

\* the sub-rules of a message that contains 'time penalty'
time_penalty_type(message) ==
    IF Contains(message, <<"5"," ","s","e","c">>) \/ Contains(message, <<"5","-","s","e","c">>)
    THEN "5 Second Time Penalty"
    ELSE IF Contains(message, <<"1","0"," ","s","e","c">>) \/ Contains(message, <<"1","0","-","s","e","c">>)
    THEN "10 Second Time Penalty"
    ELSE IF Contains(message, <<"3","0"," ","s","e","c">>) \/ Contains(message, <<"3","0","-","s","e","c">>)
    THEN "30 Second Time Penalty"
    ELSE "Time Penalty"

\* mutant of penalty_type: the reprimand rule is tested first
penalty_type_reprimand_first(message) ==
    IF Contains(message, <<"r","e","p","r","i","m","a","n","d">>)
    THEN "Reprimand"
    ELSE IF Contains(message, <<"t","i","m","e"," ","p","e","n","a","l","t","y">>)
    THEN time_penalty_type(message)
    ELSE IF Contains(message, <<"g","r","i","d"," ","p","e","n","a","l","t","y">>)
    THEN "Grid Penalty"
    ELSE IF Contains(message, <<"s","t","o","p"," ","a","n","d"," ","g","o">>) \/ Contains(message, <<"s","t","o","p","-","a","n","d","-","g","o">>)
    THEN "Stop and Go Penalty"
    ELSE IF Contains(message, <<"d","r","i","v","e"," ","t","h","r","o","u","g","h">>) \/ Contains(message, <<"d","r","i","v","e","-","t","h","r","o","u","g","h">>)
    THEN "Drive Through Penalty"
    ELSE IF Contains(message, <<"d","i","s","q","u","a","l","i","f","i","e","d">>) \/ Contains(message, <<"d","s","q">>)
    THEN "Disqualification"
    ELSE IF Contains(message, <<"w","a","r","n","i","n","g">>)
    THEN "Warning"
    ELSE "Unknown"

\* "Determine penalty type"; 'Unknown' is what penalty_info was created with
penalty_type(message) ==
    IF Contains(message, <<"t","i","m","e"," ","p","e","n","a","l","t","y">>)
    THEN time_penalty_type(message)
    ELSE IF Contains(message, <<"g","r","i","d"," ","p","e","n","a","l","t","y">>)
    THEN "Grid Penalty"
    ELSE IF Contains(message, <<"s","t","o","p"," ","a","n","d"," ","g","o">>) \/ Contains(message, <<"s","t","o","p","-","a","n","d","-","g","o">>)
    THEN "Stop and Go Penalty"
    ELSE IF Contains(message, <<"d","r","i","v","e"," ","t","h","r","o","u","g","h">>) \/ Contains(message, <<"d","r","i","v","e","-","t","h","r","o","u","g","h">>)
    THEN "Drive Through Penalty"
    ELSE IF Contains(message, <<"r","e","p","r","i","m","a","n","d">>)
    THEN "Reprimand"
    ELSE IF Contains(message, <<"d","i","s","q","u","a","l","i","f","i","e","d">>) \/ Contains(message, <<"d","s","q">>)
    THEN "Disqualification"
    ELSE IF Contains(message, <<"w","a","r","n","i","n","g">>)
    THEN "Warning"
    ELSE "Unknown"

\* the loop over lap_patterns: group(1) of the first pattern that matches
RECURSIVE first_lap_match(_, _)
first_lap_match(k, message) ==
    IF k > Len(lap_patterns) THEN NaN
    ELSE IF notna(lap_search(lap_patterns[k], message))
    THEN lap_search(lap_patterns[k], message)
    ELSE first_lap_match(k + 1, message)

\* "Extract lap information with multiple patterns"
lap_from_message(info, message) ==
    LET m == first_lap_match(1, message)
    IN  IF isna(m) THEN info ELSE [info EXCEPT !.Lap = Val(m)]

\* laps[laps['LapStartTime'] <= session_time] (a NaT start compares False)
laps_started(laps, session_time) ==
    SelectSeq(laps, LAMBDA l : notna(l.LapStartTime) /\ Val(l.LapStartTime) <= session_time)

\* a SessionTime cell that pd.to_timedelta cannot parse: it is not NaN, and
\* the conversion raises ValueError
Malformed == <<0, 0>>
to_timedelta_raises(cell) == cell = Malformed

\* mutant of escapes_try: no try statement around the lap lookup
escapes_uncaught(raised) == raised

\* try: ... except: pass  around the lap lookup: whatever the try body raises,
\* nothing leaves the statement
escapes_try(raised) == FALSE

\* mutant of lap_from_session_time: the lap table is consulted also when the
\* text gave a lap
lap_from_session_time_always(info, row, laps) ==
    IF laps # <<>> /\ notna(row.SessionTime) /\ ~to_timedelta_raises(row.SessionTime)
    THEN LET closest_lap == laps_started(laps, Val(row.SessionTime))
         IN  IF closest_lap # <<>>
             THEN [info EXCEPT !.Lap = DecStr(closest_lap[Len(closest_lap)].LapNumber)]
             ELSE info
    ELSE info

\* "If no lap found in message": the last lap row started by SessionTime
lap_from_session_time(info, row, laps) ==
    IF /\ info.Lap = Unknown /\ laps # <<>> /\ notna(row.SessionTime)
       /\ ~to_timedelta_raises(row.SessionTime)
    THEN LET closest_lap == laps_started(laps, Val(row.SessionTime))
         IN  IF closest_lap # <<>>
             THEN [info EXCEPT !.Lap = DecStr(closest_lap[Len(closest_lap)].LapNumber)]
             ELSE info
    ELSE info

\* mutant of penalty_info_at_start: one dict, created before the loop, is
\* filled again in every pass
penalty_info_reused(previous, row) ==
    IF isna(previous) THEN new_penalty_info(row)
    ELSE [Val(previous) EXCEPT !.Message = row.Message, !.Penalty_Details = row.Message]

\* penalty_info = {...} at the top of a pass: a new dict, whatever the dict of
\* the pass before (previous) holds
penalty_info_at_start(previous, row) == new_penalty_info(row)

\* the steps of the loop body on the dict info
extract_penalty_from(info, row, results, laps) ==
    LET message == lower(row.Message)
        i1 == driver_from_row(info, row, results)
        i2 == car_from_message(i1, message, results)
        i3 == driver_from_message(i2, row)
        i4 == [i3 EXCEPT !.Penalty_Type = penalty_type(message)]
        i5 == lap_from_message(i4, message)
    IN  lap_from_session_time(i5, row, laps)

\* the body of the loop for a row that passes the penalty check
extract_penalty(row, results, laps) ==
    extract_penalty_from(new_penalty_info(row), row, results, laps)

\* the body of the loop raises an exception that nothing catches: only the lap
\* lookup can raise, in pd.to_timedelta, and it stands in a try statement
extract_penalty_raises(row, results, laps) ==
    LET message == lower(row.Message)
        i1 == driver_from_row(new_penalty_info(row), row, results)
        i2 == car_from_message(i1, message, results)
        i3 == driver_from_message(i2, row)
        i5 == lap_from_message(i3, message)
    IN  escapes_try(/\ i5.Lap = Unknown /\ laps # <<>> /\ notna(row.SessionTime)
                    /\ to_timedelta_raises(row.SessionTime))

(***************************************************************************)
(* Race Control page: the penalties table                                  *)
(***************************************************************************)
\* mutant of penalties_data_at_start: the list outlives the pass of the script
penalties_data_kept(previous) == previous

\* penalties_data = []  at the top of the page, whatever the pass before left
penalties_data_at_start(previous) == <<>>

\* the value of a text of digits
RECURSIVE ParseNat(_)
ParseNat(t) ==
    IF t = <<>> THEN 0
    ELSE 10 * ParseNat(SubSeq(t, 1, Len(t) - 1))
             + (CHOOSE d \in 0..9 : DigitChars[d + 1] = t[Len(t)])

\* mutant of to_numeric: the Lap column is sorted as it is, as text, where the
\* first character decides before the second
to_numeric_as_text(lap) ==
    IF lap # <<>> /\ \A i \in 1..Len(lap) : IsDigit(lap[i])
    THEN Some(11 * ParseNat(<<lap[1]>>) + (IF Len(lap) > 1 THEN 1 + ParseNat(<<lap[2]>>) ELSE 0))
    ELSE NaN

\* pd.to_numeric(display_penalties['Lap'], errors='coerce') of one cell: the
\* number of a text of digits, NaN for 'Unknown'
to_numeric(lap) ==
    IF lap # <<>> /\ \A i \in 1..Len(lap) : IsDigit(lap[i])
    THEN Some(ParseNat(lap))
    ELSE NaN

\* penalties_df[['Lap', 'Driver', 'Car_Number', 'Penalty_Type', 'Penalty_Details']]
\* of one row (the columns are shown as Lap, Driver, Car #, Penalty Type, Details)
display_row(info) ==
    [Lap |-> info.Lap, Driver |-> info.Driver, Car_Number |-> info.Car_Number,
     Penalty_Type |-> info.Penalty_Type, Penalty_Details |-> info.Penalty_Details]

\* sort_values('Lap_Numeric', na_position='last') puts the key a before the key b
sorts_before(a, b) == notna(a) /\ (isna(b) \/ Val(a) < Val(b))

\* the orders sort_values may leave the rows in: the sort is not a stable one,
\* so rows of equal key come in any order
sort_values(rows) ==
    LET n == Len(rows)
        orders == {p \in [1..n -> 1..n] :
                      /\ \A i, j \in 1..n : i # j => p[i] # p[j]
                      /\ \A i, j \in 1..n :
                             i < j => ~sorts_before(to_numeric(rows[p[j]].Lap),
                                                    to_numeric(rows[p[i]].Lap))}
    IN  {[k \in 1..n |-> rows[p[k]]] : p \in orders}

(***************************************************************************)
(* Race Control page: categorize_message                                   *)
(***************************************************************************)
category_penalty_words ==
    << <<"p","e","n","a","l","t","y">>,
       <<"p","e","n","a","l","i","s","e","d">>,
       <<"t","i","m","e"," ","p","e","n","a","l","t","y">>,
       <<"g","r","i","d"," ","p","e","n","a","l","t","y">> >>
category_investigation_words ==
    << <<"i","n","v","e","s","t","i","g","a","t","i","o","n">>,
       <<"i","n","c","i","d","e","n","t">>,
       <<"n","o","t","e","d">> >>
category_safety_car_words ==
    << <<"s","a","f","e","t","y"," ","c","a","r">>,
       <<"v","i","r","t","u","a","l"," ","s","a","f","e","t","y"," ","c","a","r">>,
       <<"v","s","c">> >>
category_flag_words ==
    << <<"f","l","a","g">>,
       <<"y","e","l","l","o","w">>,
       <<"r","e","d">>,
       <<"g","r","e","e","n">> >>
category_drs_words ==
    << <<"d","r","s">>,
       <<"e","n","a","b","l","e","d">>,
       <<"d","i","s","a","b","l","e","d">> >>

categorize_message(message) ==
    LET message_lower == lower(message)
    IN  IF ContainsAny(message_lower, category_penalty_words) THEN "Penalty"
        ELSE IF ContainsAny(message_lower, category_investigation_words) THEN "Investigation"
        ELSE IF ContainsAny(message_lower, category_safety_car_words) THEN "Safety Car"
        ELSE IF ContainsAny(message_lower, category_flag_words) THEN "Flag"
        ELSE IF ContainsAny(message_lower, category_drs_words) THEN "DRS"
        ELSE "General"

(***************************************************************************)
(* The inputs of a render pass: what the session loader hands to the page  *)
(***************************************************************************)
\* A message is made of fragments joined by blanks.  Each vocabulary holds the
\* fragments of one part of the page: the penalty type rules, the durations of
\* a time penalty, the car / driver / lap extraction, the categories.
TypeVocabulary ==
    << <<"T","I","M","E"," ","P","E","N","A","L","T","Y">>,
       <<"G","R","I","D"," ","P","E","N","A","L","T","Y">>,
       <<"S","T","O","P"," ","A","N","D"," ","G","O"," ","P","E","N","A","L","T","Y">>,
       <<"S","T","O","P","-","A","N","D","-","G","O">>,
       <<"D","R","I","V","E"," ","T","H","R","O","U","G","H"," ","P","E","N","A","L","T","Y">>,
       <<"D","R","I","V","E","-","T","H","R","O","U","G","H">>,
       <<"R","E","P","R","I","M","A","N","D">>,
       <<"D","I","S","Q","U","A","L","I","F","I","E","D">>,
       <<"D","S","Q">>,
       <<"W","A","R","N","I","N","G">>,
       <<"P","E","N","A","L","I","S","E","D">> >>

DurationVocabulary ==
    << <<"T","I","M","E"," ","P","E","N","A","L","T","Y">>,
       <<"1","0"," ","S","E","C"," ","T","I","M","E"," ","P","E","N","A","L","T","Y">>,
       <<"5"," ","S","E","C">>,
       <<"5","-","S","E","C">>,
       <<"1","0"," ","S","E","C">>,
       <<"1","0","-","S","E","C">>,
       <<"3","0"," ","S","E","C">>,
       <<"3","0","-","S","E","C">>,
       <<"1","5"," ","S","E","C">>,
       <<"P","E","N","A","L","T","Y">> >>

ExtractionVocabulary ==
    << <<"P","E","N","A","L","T","Y">>,
       <<"p","e","n","a","l","t","y">>,
       <<"P","E","N","A","L","T","Y"," ","F","O","R"," ","C","A","R"," ","4","4">>,
       <<"C","A","R"," ","4","4">>,
       <<"#","7">>,
       <<"N","O","."," ","1">>,
       <<"A","l","e","x"," ","A","l","b","o","n">>,
       <<"H","A","M">>,
       <<"L","A","P"," ","1","2">>,
       <<"L","A","P","9">>,
       <<"P","E","N","A","L","T","Y"," ","L","A","P","9">>,
       <<"L","1","5">> >>

CategoryVocabulary ==
    << <<"P","E","N","A","L","T","Y">>,
       <<"P","E","N","A","L","I","S","E","D">>,
       <<"P","E","N","A","L","I","Z","E","D">>,
       <<"R","E","P","R","I","M","A","N","D">>,
       <<"I","N","V","E","S","T","I","G","A","T","I","O","N">>,
       <<"I","N","C","I","D","E","N","T">>,
       <<"N","O","T","E","D">>,
       <<"S","A","F","E","T","Y"," ","C","A","R">>,
       <<"V","S","C">>,
       <<"F","L","A","G">>,
       <<"Y","E","L","L","O","W">>,
       <<"R","E","D">>,
       <<"G","R","E","E","N">>,
       <<"D","R","S">>,
       <<"E","N","A","B","L","E","D">>,
       <<"D","I","S","A","B","L","E","D">> >>

\* the fragments of the messages whose record fields are varied
FieldVocabulary ==
    << <<"P","E","N","A","L","T","Y">>,
       <<"C","A","R"," ","4","4">>,
       <<"#","7">>,
       <<"L","A","P"," ","1","2">> >>

\* the messages of the feeds of several rows
FeedMessages ==
    << <<"P","E","N","A","L","T","Y"," ","L","A","P"," ","1","2">>,
       <<"R","E","P","R","I","M","A","N","D"," ","L","A","P","9">>,
       <<"R","E","P","R","I","M","A","N","D"," ","L","A","P"," ","1","2">>,
       <<"p","e","n","a","l","t","y">>,
       <<"Y","E","L","L","O","W">> >>

MaxFrags == 2
MaxFeed == 2
MaxLaps == 2
MaxRuns == 2
MaxLapRows == 4
MaxHours == 1

RECURSIVE Join(_)
Join(frags) ==
    IF Len(frags) = 0 THEN <<>>
    ELSE IF Len(frags) = 1 THEN frags[1]
    ELSE frags[1] \o <<" ">> \o Join(Tail(frags))

\* the messages of up to MaxFrags fragments of a vocabulary
MessagesOver(vocabulary) ==
    {Join([k \in 1..Len(ix) |-> vocabulary[ix[k]]]) :
        ix \in UNION {[1..m -> 1..Len(vocabulary)] : m \in 1..MaxFrags}}

\* the messages of two fragments of any two vocabularies
Fragments ==
    UNION {{v[k] : k \in 1..Len(v)} :
              v \in {TypeVocabulary, DurationVocabulary, ExtractionVocabulary,
                     CategoryVocabulary}}
CrossMessages == {Join(<<a, b>>) : a \in Fragments, b \in Fragments}

Messages ==
    MessagesOver(TypeVocabulary) \cup MessagesOver(DurationVocabulary)
        \cup MessagesOver(ExtractionVocabulary) \cup MessagesOver(CategoryVocabulary)
        \cup CrossMessages

Row(message, driver, car, time) ==
    [Message |-> message, Driver |-> driver, CarNumber |-> car, SessionTime |-> time]

\* rows with nothing but a message
TextRows == {Row(m, NaN, NaN, NaN) : m \in Messages}

\* rows whose Driver, CarNumber and SessionTime cells vary
DriverCells == {NaN, Some(<<"V","E","R">>)}
CarCells == {NaN, Some(<<"4","4">>), Some(<<"7">>)}
TimeCells == {NaN, Some(5), Some(25)}
FieldRows ==
    {Row(m, d, c, t) : m \in MessagesOver(FieldVocabulary),
                       d \in DriverCells, c \in CarCells, t \in TimeCells}

\* feeds of two and more rows
FeedRows == {Row(FeedMessages[k], NaN, NaN, NaN) : k \in 1..Len(FeedMessages)}
LongFeeds == UNION {[1..n -> FeedRows] : n \in 2..MaxFeed}

\* session.results: empty (not loaded) or the classified drivers
FullResults ==
    << [DriverNumber |-> <<"1">>, BroadcastName |-> <<"M"," ","V","E","R","S","T","A","P","P","E","N">>],
       [DriverNumber |-> <<"4","4">>, BroadcastName |-> <<"L"," ","H","A","M","I","L","T","O","N">>] >>
Rosters == {<<>>, FullResults}

\* session.laps: empty (not loaded) or the laps with their start times
FullLaps ==
    << [LapNumber |-> 1, LapStartTime |-> Some(10)],
       [LapNumber |-> 2, LapStartTime |-> Some(20)],
       [LapNumber |-> 3, LapStartTime |-> Some(30)] >>
Timelines == {<<>>, FullLaps}

\* session.laps holds the laps of every driver: a lap number comes with several
\* start times, and the rows are in the order the session delivers them
LapRows == {[LapNumber |-> n, LapStartTime |-> Some(t)] : n \in 1..3, t \in {10, 20, 30}}
LapTables == UNION {[1..n -> LapRows] : n \in 0..MaxLaps}

\* rows of a penalty message without a lap in its text, with and without SessionTime
TimedRows == {Row(<<"P","E","N","A","L","T","Y">>, NaN, NaN, t) :
                 t \in {NaN, Some(5), Some(25), Some(35), Malformed}}

\* Timedelta values: sign, hours, minutes, seconds, milliseconds and ticks
Durations ==
    {sign * ((((h * 60 + m) * 60 + s) * 1000 + ms) * TicksPerMs + sub) :
        sign \in {1, -1}, h \in 0..MaxHours, m \in {0, 1, 2, 59}, s \in {0, 5, 23, 59},
        ms \in {0, 40, 456, 500, 999}, sub \in 0..(TicksPerMs - 1)}

(***************************************************************************)
(* State                                                                   *)
(***************************************************************************)
VARIABLES
    race_control_messages,  \* the message table of the session
    results,                \* the results table of the session
    laps,                   \* the lap table of the session
    idx,                    \* the row the penalty loop is at
    penalties_data,         \* the penalty_info dicts appended so far
    penalty_info,           \* the dict of the pass of the loop before, NaN before the first
    total_penalties,        \* the number written as Total Penalties Issued, NaN if none is
    no_penalties,           \* the notice 'No penalties issued' is shown
    display_penalties,      \* the penalties table as shown
    messages_df,            \* the copy of the message table with its Category column
    pc,                     \* where the page is
    run,                    \* the pass of the script (it is run again at every refresh)
    previous_run,           \* what the pass before produced, NaN in the first pass
    time_obj,               \* a cell of a LapTime / Time column
    LapTime_Formatted,      \* format_laptime of the cell, NaN until applied
    Time_Formatted,         \* format_race_time of the cell, NaN until applied
    display_fastest,        \* the table Fastest Lap Per Driver as shown
    lap_notice              \* the notice shown in place of the table, NaN if none is

vars == <<race_control_messages, results, laps, idx, penalties_data, penalty_info,
          total_penalties, no_penalties, display_penalties, messages_df, pc,
          run, previous_run, time_obj, LapTime_Formatted, Time_Formatted,
          display_fastest, lap_notice>>

rc_inputs == <<race_control_messages, results, laps>>
loop_vars == <<idx, penalties_data, penalty_info>>
summary_vars == <<total_penalties, no_penalties, display_penalties>>
run_vars == <<run, previous_run>>
format_vars == <<time_obj, LapTime_Formatted, Time_Formatted>>
rc_vars == <<rc_inputs, loop_vars, summary_vars, messages_df, pc, run_vars>>
lap_page_vars == <<display_fastest, lap_notice>>
other_pages == <<format_vars, lap_page_vars>>

(***************************************************************************)
(* Race Control page                                                       *)
(***************************************************************************)
InitInputs ==
    \/ /\ race_control_messages \in {<<r>> : r \in TextRows}
       /\ results = FullResults
       /\ laps = FullLaps
    \/ /\ race_control_messages \in {<<r>> : r \in FieldRows}
       /\ results \in Rosters
       /\ laps \in Timelines
    \/ /\ race_control_messages \in LongFeeds \cup {<<>>}
       /\ results = FullResults
       /\ laps = FullLaps
    \/ /\ race_control_messages \in {<<r>> : r \in TimedRows}
       /\ results = FullResults
       /\ laps \in LapTables

\* the variables of the page at the top of a pass of the script
InitPage ==
    /\ idx = 1
    /\ penalties_data = <<>>
    /\ penalty_info = NaN
    /\ total_penalties = NaN
    /\ no_penalties = FALSE
    /\ display_penalties = <<>>
    /\ messages_df = <<>>

Init ==
    /\ InitInputs
    /\ InitPage
    /\ pc = "penalties"
    /\ run = 1
    /\ previous_run = NaN
    /\ time_obj = NaN
    /\ LapTime_Formatted = NaN
    /\ Time_Formatted = NaN
    /\ display_fastest = <<>>
    /\ lap_notice = NaN

\* one pass of the loop body for a row that is a penalty message
ExtractPenalty ==
    /\ pc = "penalties"
    /\ idx <= Len(race_control_messages)
    /\ is_penalty_message(race_control_messages[idx])
    /\ IF extract_penalty_raises(race_control_messages[idx], results, laps)
       THEN /\ pc' = "error"
            /\ UNCHANGED loop_vars
       ELSE LET row == race_control_messages[idx]
                info == extract_penalty_from(penalty_info_at_start(penalty_info, row),
                                             row, results, laps)
            IN  /\ penalties_data' = Append(penalties_data, info)
                /\ penalty_info' = Some(info)
                /\ idx' = idx + 1
                /\ pc' = pc
    /\ UNCHANGED <<rc_inputs, summary_vars, messages_df, run_vars, other_pages>>

\* one pass of the loop body for a row that is no penalty message
SkipMessage ==
    /\ pc = "penalties"
    /\ idx <= Len(race_control_messages)
    /\ ~is_penalty_message(race_control_messages[idx])
    /\ idx' = idx + 1
    /\ UNCHANGED <<rc_inputs, penalties_data, penalty_info, summary_vars, messages_df, pc,
                   run_vars, other_pages>>

\* mutant of EndPenalties: the notice depends on the message table being
\* empty, not on the penalties list
EndPenalties_by_messages ==
    /\ pc = "penalties"
    /\ idx > Len(race_control_messages)
    /\ IF race_control_messages # <<>>
       THEN /\ total_penalties' = Some(Len(penalties_data))
            /\ display_penalties' \in
                   sort_values([k \in 1..Len(penalties_data) |-> display_row(penalties_data[k])])
            /\ no_penalties' = FALSE
       ELSE /\ no_penalties' = TRUE
            /\ UNCHANGED <<total_penalties, display_penalties>>
    /\ pc' = "messages"
    /\ UNCHANGED <<rc_inputs, loop_vars, messages_df, run_vars, other_pages>>

\* the loop is over (or the table is empty): the total and the sorted table
\* of the penalties, or the notice that there are none
EndPenalties ==
    /\ pc = "penalties"
    /\ idx > Len(race_control_messages)
    /\ IF penalties_data # <<>>
       THEN /\ total_penalties' = Some(Len(penalties_data))
            /\ display_penalties' \in
                   sort_values([k \in 1..Len(penalties_data) |-> display_row(penalties_data[k])])
            /\ no_penalties' = FALSE
       ELSE /\ no_penalties' = TRUE
            /\ UNCHANGED <<total_penalties, display_penalties>>
    /\ pc' = "messages"
    /\ UNCHANGED <<rc_inputs, loop_vars, messages_df, run_vars, other_pages>>

\* mutant of copy_of: messages_df is the message table itself, not a copy
no_copy_of(table, written) == written

\* messages_df = race_control_messages.copy(): what the table is after the
\* copy got its new column (written)
copy_of(table, written) == table

\* messages_df = race_control_messages.copy();
\* messages_df['Category'] = messages_df['Message'].apply(categorize_message)
CategorizeMessages ==
    /\ pc = "messages"
    /\ race_control_messages # <<>>
    /\ LET written ==
               [k \in 1..Len(race_control_messages) |->
                   [Message |-> race_control_messages[k].Message,
                    Driver |-> race_control_messages[k].Driver,
                    CarNumber |-> race_control_messages[k].CarNumber,
                    SessionTime |-> race_control_messages[k].SessionTime,
                    Category |-> categorize_message(race_control_messages[k].Message)]]
       IN  /\ messages_df' = written
           /\ race_control_messages' = copy_of(race_control_messages, written)
    /\ pc' = "done"
    /\ UNCHANGED <<results, laps, loop_vars, summary_vars, run_vars, other_pages>>

\* "No race control messages available."
NoMessages ==
    /\ pc = "messages"
    /\ race_control_messages = <<>>
    /\ pc' = "done"
    /\ UNCHANGED <<rc_inputs, loop_vars, summary_vars, messages_df, run_vars, other_pages>>

\* st_autorefresh: the script is run again from its top on the same session
\* data (load_race_control_data is cached); nothing of the pass before is left
Rerun ==
    /\ pc = "done"
    /\ run < MaxRuns
    /\ run' = run + 1
    /\ previous_run' = Some([penalties_data |-> penalties_data, messages_df |-> messages_df])
    /\ idx' = 1
    /\ penalties_data' = penalties_data_at_start(penalties_data)
    /\ penalty_info' = NaN
    /\ total_penalties' = NaN
    /\ no_penalties' = FALSE
    /\ display_penalties' = <<>>
    /\ messages_df' = <<>>
    /\ pc' = "penalties"
    /\ UNCHANGED <<rc_inputs, other_pages>>

\* one pass of the script over the page
Next ==
    \/ ExtractPenalty
    \/ SkipMessage
    \/ EndPenalties
    \/ CategorizeMessages
    \/ NoMessages

Spec == Init /\ [][Next]_vars

\* the page with its refresh: a pass, and the pass after it
NextRefresh ==
    \/ ExtractPenalty
    \/ SkipMessage
    \/ EndPenalties
    \/ CategorizeMessages
    \/ NoMessages
    \/ Rerun

SpecRefresh == Init /\ [][NextRefresh]_vars

(***************************************************************************)
(* Lap Times and Race Results pages: a duration cell is formatted          *)
(***************************************************************************)
InitFormat ==
    /\ time_obj \in {NaN} \cup {Some(d) : d \in Durations}
    /\ LapTime_Formatted = NaN
    /\ Time_Formatted = NaN
    /\ race_control_messages = <<>>
    /\ results = <<>>
    /\ laps = <<>>
    /\ InitPage
    /\ pc = "format"
    /\ run = 1
    /\ previous_run = NaN
    /\ display_fastest = <<>>
    /\ lap_notice = NaN

\* display_laps["LapTime_Formatted"] = display_laps["LapTime"].apply(format_laptime)
FormatLapTime ==
    /\ pc = "format"
    /\ isna(LapTime_Formatted)
    /\ LapTime_Formatted' = Some(format_laptime(time_obj))
    /\ UNCHANGED <<rc_vars, time_obj, Time_Formatted, lap_page_vars>>

\* display_results["Time_Formatted"] = display_results["Time"].apply(format_race_time)
FormatRaceTime ==
    /\ pc = "format"
    /\ isna(Time_Formatted)
    /\ Time_Formatted' = Some(format_race_time(time_obj))
    /\ UNCHANGED <<rc_vars, time_obj, LapTime_Formatted, lap_page_vars>>

NextFormat ==
    \/ FormatLapTime
    \/ FormatRaceTime

SpecFormat == InitFormat /\ [][NextFormat]_vars

(***************************************************************************)
(* Lap Times page: Fastest Lap Per Driver                                  *)
(*                                                                         *)
(* Here a row of laps is [Driver, LapTime]; its place in the table is its  *)
(* index label.                                                            *)
(***************************************************************************)
\* the laps of a session: two drivers, lap times missing (NaT) or present
LapTimeRows ==
    {[Driver |-> d, LapTime |-> t] :
        d \in {<<"V","E","R">>, <<"H","A","M">>},
        t \in {NaN, Some(80000 * TicksPerMs), Some(85000 * TicksPerMs)}}
LapTimeTables == UNION {[1..n -> LapTimeRows] : n \in 0..MaxLapRows}

\* laps.dropna(subset=['LapTime']): the index labels that are left
valid_laps(table) == {i \in 1..Len(table) : notna(table[i].LapTime)}

\* mutant of idxmin: the slowest lap of the driver
idxmax(table, group) ==
    CHOOSE i \in group :
        \A j \in group :
            \/ Val(table[j].LapTime) < Val(table[i].LapTime)
            \/ (Val(table[j].LapTime) = Val(table[i].LapTime) /\ i <= j)

\* idxmin of a group: the label of the first row with the least LapTime
idxmin(table, group) ==
    CHOOSE i \in group :
        \A j \in group :
            \/ Val(table[i].LapTime) < Val(table[j].LapTime)
            \/ (Val(table[i].LapTime) = Val(table[j].LapTime) /\ i <= j)

\* valid_laps.groupby('Driver')['LapTime'].idxmin(): one label for each driver
fastest_per_driver(table) ==
    LET valid == valid_laps(table)
    IN  {idxmin(table, {i \in valid : table[i].Driver = d}) :
            d \in {table[i].Driver : i \in valid}}

\* sort_values(by="LapTime") of the rows with the given labels: every order
\* in which no row stands before one with a smaller LapTime
sorted_by_LapTime(table, labels) ==
    LET n == Cardinality(labels)
    IN  {p \in [1..n -> labels] :
            /\ \A i, j \in 1..n : i # j => p[i] # p[j]
            /\ \A i, j \in 1..n :
                   i < j => Val(table[p[i]].LapTime) <= Val(table[p[j]].LapTime)}

InitLaps ==
    /\ laps \in LapTimeTables
    /\ display_fastest = <<>>
    /\ lap_notice = NaN
    /\ race_control_messages = <<>>
    /\ results = <<>>
    /\ InitPage
    /\ pc = "laps"
    /\ run = 1
    /\ previous_run = NaN
    /\ time_obj = NaN
    /\ LapTime_Formatted = NaN
    /\ Time_Formatted = NaN

\* the table: the fastest lap of each driver, sorted by LapTime, formatted
FastestPerDriver ==
    /\ pc = "laps"
    /\ laps # <<>>
    /\ valid_laps(laps) # {}
    /\ \E p \in sorted_by_LapTime(laps, fastest_per_driver(laps)) :
           display_fastest' =
               [k \in 1..Len(p) |->
                   [Driver |-> laps[p[k]].Driver,
                    LapTime |-> format_laptime(laps[p[k]].LapTime)]]
    /\ pc' = "done"
    /\ UNCHANGED <<rc_inputs, loop_vars, summary_vars, messages_df, run_vars, format_vars,
                   lap_notice>>

\* "No valid lap times available."
NoValidLaps ==
    /\ pc = "laps"
    /\ laps # <<>>
    /\ valid_laps(laps) = {}
    /\ lap_notice' = Some("No valid lap times available.")
    /\ pc' = "done"
    /\ UNCHANGED <<rc_inputs, loop_vars, summary_vars, messages_df, run_vars, format_vars,
                   display_fastest>>

\* "No race lap data available yet."
NoLapData ==
    /\ pc = "laps"
    /\ laps = <<>>
    /\ lap_notice' = Some("No race lap data available yet.")
    /\ pc' = "done"
    /\ UNCHANGED <<rc_inputs, loop_vars, summary_vars, messages_df, run_vars, format_vars,
                   display_fastest>>

NextLaps ==
    \/ FastestPerDriver
    \/ NoValidLaps
    \/ NoLapData

SpecLaps == InitLaps /\ [][NextLaps]_vars

(***************************************************************************)
(* Properties of the Race Control page                                     *)
(***************************************************************************)
\* the rows the penalty loop has been through
Processed == 1..(idx - 1)

\* the row the penalty loop has just been through: its annotation, if any, is
\* the dict appended last
Current == IF pc = "penalties" /\ idx > 1 THEN {idx - 1} ELSE {}

\* the lower-cased text of row k contains one of the six penalty words
GateWords ==
    << <<"p","e","n","a","l","t","y">>,
       <<"p","e","n","a","l","i","s","e","d">>,
       <<"p","e","n","a","l","i","z","e","d">>,
       <<"t","i","m","e"," ","p","e","n","a","l","t","y">>,
       <<"g","r","i","d"," ","p","e","n","a","l","t","y">>,
       <<"r","e","p","r","i","m","a","n","d">> >>
Gated(k) == ContainsAny(lower(race_control_messages[k].Message), GateWords)

\* the annotation of gated row k: penalties_data holds the annotations in feed order
Annotation(k) == penalties_data[Cardinality({j \in 1..k : Gated(j)})]

\* the BroadcastName of every results row with the given DriverNumber
RosterLabels(number) ==
    {results[r].BroadcastName : r \in {q \in 1..Len(results) : results[q].DriverNumber = number}}

\* C1: the annotation of a gated row whose record carries a Driver has that
\* Driver, whatever the text and the results table hold.
C1_RecordDriverIsUsed ==
    \A k \in Current :
        (Gated(k) /\ notna(race_control_messages[k].Driver))
            => Annotation(k).Driver = Val(race_control_messages[k].Driver)

\* C2: every message whose lower-cased text contains penalty, penalised,
\* penalized, time penalty or grid penalty is categorized Penalty.
PenaltyKeywords ==
    << <<"p","e","n","a","l","t","y">>,
       <<"p","e","n","a","l","i","s","e","d">>,
       <<"p","e","n","a","l","i","z","e","d">>,
       <<"t","i","m","e"," ","p","e","n","a","l","t","y">>,
       <<"g","r","i","d"," ","p","e","n","a","l","t","y">> >>
C2_PenaltyKeywordIsPenalty ==
    \A k \in 1..Len(messages_df) :
        ContainsAny(lower(messages_df[k].Message), PenaltyKeywords)
            => messages_df[k].Category = "Penalty"

\* C4: after the loop went through a row, penalties_data holds an annotation of
\* the row if and only if its lower-cased text contains one of the six penalty
\* words: one annotation per such row, in feed order, and none for another row.
C4_AnnotationIffGated ==
    /\ Len(penalties_data) = Cardinality({k \in Processed : Gated(k)})
    /\ \A k \in Processed :
           Gated(k) => Annotation(k).Message = race_control_messages[k].Message

\* C4 witness: the loop went through a row that is gated by 'reprimand' alone
\* and through a row that is not gated.
C4_Witness ==
    /\ \E k \in Processed :
           /\ Gated(k)
           /\ ~Contains(lower(race_control_messages[k].Message), <<"p","e","n","a","l","t","y">>)
    /\ \E k \in Processed : ~Gated(k)
    /\ Len(penalties_data) = 1

\* C5: the category of a message is that of the first keyword group, in the order
\* Penalty, Investigation, SafetyCar, Flag, DRS, with a keyword in the lower-cased
\* text, and General when no group has one.
KeywordGroups ==
    << [category |-> "Penalty", words |-> PenaltyKeywords],
       [category |-> "Investigation", words |->
           << <<"i","n","v","e","s","t","i","g","a","t","i","o","n">>,
              <<"i","n","c","i","d","e","n","t">>,
              <<"n","o","t","e","d">> >>],
       [category |-> "Safety Car", words |->
           << <<"s","a","f","e","t","y"," ","c","a","r">>,
              <<"v","i","r","t","u","a","l"," ","s","a","f","e","t","y"," ","c","a","r">>,
              <<"v","s","c">> >>],
       [category |-> "Flag", words |->
           << <<"f","l","a","g">>,
              <<"y","e","l","l","o","w">>,
              <<"r","e","d">>,
              <<"g","r","e","e","n">> >>],
       [category |-> "DRS", words |->
           << <<"d","r","s">>,
              <<"e","n","a","b","l","e","d">>,
              <<"d","i","s","a","b","l","e","d">> >>] >>
FirstGroup(text) ==
    LET hits == {g \in 1..Len(KeywordGroups) : ContainsAny(text, KeywordGroups[g].words)}
    IN  IF hits = {} THEN "General" ELSE KeywordGroups[Min(hits)].category
C5_CategoryOfFirstGroup ==
    \A k \in 1..Len(messages_df) :
        messages_df[k].Category = FirstGroup(lower(messages_df[k].Message))

\* C6: the penalty type of an annotation is that of the first rule, in the order
\* time penalty, grid penalty, stop and go, drive through, reprimand,
\* disqualified, warning, that matches the lower-cased text, and 'Unknown' (no
\* type) when no rule matches.
TypeRules ==
    << [words |-> <<<<"t","i","m","e"," ","p","e","n","a","l","t","y">>>>,
        types |-> {"5 Second Time Penalty", "10 Second Time Penalty",
                   "30 Second Time Penalty", "Time Penalty"}],
       [words |-> <<<<"g","r","i","d"," ","p","e","n","a","l","t","y">>>>, types |-> {"Grid Penalty"}],
       [words |-> <<<<"s","t","o","p"," ","a","n","d"," ","g","o">>, <<"s","t","o","p","-","a","n","d","-","g","o">>>>,
        types |-> {"Stop and Go Penalty"}],
       [words |-> <<<<"d","r","i","v","e"," ","t","h","r","o","u","g","h">>, <<"d","r","i","v","e","-","t","h","r","o","u","g","h">>>>,
        types |-> {"Drive Through Penalty"}],
       [words |-> <<<<"r","e","p","r","i","m","a","n","d">>>>, types |-> {"Reprimand"}],
       [words |-> <<<<"d","i","s","q","u","a","l","i","f","i","e","d">>, <<"d","s","q">>>>,
        types |-> {"Disqualification"}],
       [words |-> <<<<"w","a","r","n","i","n","g">>>>, types |-> {"Warning"}] >>
MatchingRules(text) == {r \in 1..Len(TypeRules) : ContainsAny(text, TypeRules[r].words)}
C6_TypeOfFirstRule ==
    \A k \in Current :
        Gated(k) =>
            LET rules == MatchingRules(lower(race_control_messages[k].Message))
            IN  IF rules = {} THEN Annotation(k).Penalty_Type = "Unknown"
                ELSE Annotation(k).Penalty_Type \in TypeRules[Min(rules)].types

\* C6 witness: an annotation of a text that two rules after the first match.
C6_Witness ==
    \E k \in Current :
        /\ Gated(k)
        /\ {3, 5} \subseteq MatchingRules(lower(race_control_messages[k].Message))
        /\ Annotation(k).Penalty_Type = "Stop and Go Penalty"

\* C7: the type of an annotation whose lower-cased text contains 'time penalty'
\* is 5 Second with '5 sec' or '5-sec', else 10 Second with '10 sec' or '10-sec',
\* else 30 Second with '30 sec' or '30-sec', else the generic Time Penalty.
HasSeconds(text, n) ==
    \/ Contains(text, n \o <<" ","s","e","c">>)
    \/ Contains(text, n \o <<"-","s","e","c">>)
C7_TimePenaltyType ==
    \A k \in Current :
        LET text == lower(race_control_messages[k].Message)
        IN  (Gated(k) /\ Contains(text, <<"t","i","m","e"," ","p","e","n","a","l","t","y">>)) =>
                Annotation(k).Penalty_Type =
                    IF HasSeconds(text, <<"5">>) THEN "5 Second Time Penalty"
                    ELSE IF HasSeconds(text, <<"1","0">>) THEN "10 Second Time Penalty"
                    ELSE IF HasSeconds(text, <<"3","0">>) THEN "30 Second Time Penalty"
                    ELSE "Time Penalty"

\* C7 witness: a time penalty text with a 5 and a 10 second duration, typed 5 Second.
C7_Witness ==
    \E k \in Current :
        LET text == lower(race_control_messages[k].Message)
        IN  /\ Contains(text, <<"t","i","m","e"," ","p","e","n","a","l","t","y">>)
            /\ HasSeconds(text, <<"5">>)
            /\ HasSeconds(text, <<"1","0">>)
            /\ Annotation(k).Penalty_Type = "5 Second Time Penalty"

\* C8: the annotation of a gated row without Driver and with a CarNumber has
\* that CarNumber, and its driver is the results label of that number when the
\* results table has one.
C8_RecordCarNumberIsUsed ==
    \A k \in Current :
        LET row == race_control_messages[k]
        IN  (Gated(k) /\ isna(row.Driver) /\ notna(row.CarNumber)) =>
                /\ Annotation(k).Car_Number = Val(row.CarNumber)
                /\ \A label \in RosterLabels(Val(row.CarNumber)) :
                       Annotation(k).Driver = label

\* C8 witness: such a row whose text names another car, resolved by the results.
C8_Witness ==
    \E k \in Current :
        LET row == race_control_messages[k]
        IN  /\ Gated(k) /\ isna(row.Driver) /\ notna(row.CarNumber)
            /\ notna(car_match(lower(row.Message)))
            /\ Val(car_match(lower(row.Message))) # Val(row.CarNumber)
            /\ RosterLabels(Val(row.CarNumber)) # {}
            /\ Annotation(k).Driver \in RosterLabels(Val(row.CarNumber))

\* the positions of the text at which a car-number pattern matches
CarHits(text) == {i \in 1..Len(text) : CarGroupAt(text, i) # <<>>}

\* C9: the annotation of a gated row without Driver and CarNumber whose text
\* holds a car-number pattern has the digits of the leftmost match, and its
\* driver is the results label of that number when the results table has one.
C9_LeftmostCarNumber ==
    \A k \in Current :
        LET row == race_control_messages[k]
            text == lower(row.Message)
        IN  (Gated(k) /\ isna(row.Driver) /\ isna(row.CarNumber) /\ CarHits(text) # {}) =>
                /\ Annotation(k).Car_Number = CarGroupAt(text, Min(CarHits(text)))
                /\ \A label \in RosterLabels(CarGroupAt(text, Min(CarHits(text)))) :
                       Annotation(k).Driver = label

\* C9 witness: a text with two car numbers, the leftmost resolved by the results.
C9_Witness ==
    \E k \in Current :
        LET row == race_control_messages[k]
            text == lower(row.Message)
        IN  /\ Gated(k) /\ isna(row.Driver) /\ isna(row.CarNumber)
            /\ \E i, j \in CarHits(text) : CarGroupAt(text, i) # CarGroupAt(text, j)
            /\ Annotation(k).Driver \in RosterLabels(CarGroupAt(text, Min(CarHits(text))))

\* the positions of the text at which a driver pattern matches
NameHits(text) == {i \in 1..Len(text) : FirstLastEnd(text, i) # 0}
CodeHits(text) == {i \in 1..Len(text) : CodeEnd(text, i) # 0}

\* the driver of row k has to come from the text: no Driver in the record and
\* no results label for the car number of the annotation
DriverFromText(k) ==
    /\ Gated(k)
    /\ isna(race_control_messages[k].Driver)
    /\ RosterLabels(Annotation(k).Car_Number) = {}

\* C10: a driver taken from the text is the leftmost First Last match when the
\* text has one, also with a three-letter code before it, and the leftmost
\* three-letter code only when the text has no First Last match.
C10_FirstLastBeforeCode ==
    \A k \in Current :
        LET text == race_control_messages[k].Message
        IN  DriverFromText(k) =>
                /\ NameHits(text) # {} =>
                       Annotation(k).Driver =
                           SubSeq(text, Min(NameHits(text)),
                                  FirstLastEnd(text, Min(NameHits(text))) - 1)
                /\ (NameHits(text) = {} /\ CodeHits(text) # {}) =>
                       Annotation(k).Driver =
                           SubSeq(text, Min(CodeHits(text)), Min(CodeHits(text)) + 2)

\* C10 witness: a text with a three-letter code before its First Last match.
C10_Witness ==
    \E k \in Current :
        LET text == race_control_messages[k].Message
        IN  /\ DriverFromText(k)
            /\ NameHits(text) # {} /\ CodeHits(text) # {}
            /\ Min(CodeHits(text)) < Min(NameHits(text))
            /\ Annotation(k).Driver = <<"A","l","e","x"," ","A","l","b","o","n">>

\* a letter of either case
IsLetter(c) == IsUpper(c) \/ IsLower(c)

\* the positions of the text at which a bare three-letter uppercase token
\* stands: three uppercase letters with no letter before or after them
BareCodeHits(text) ==
    {i \in CodeHits(text) :
        /\ (i = 1 \/ ~IsLetter(text[i - 1]))
        /\ (i + 3 > Len(text) \/ ~IsLetter(text[i + 3]))}

\* C11: a driver taken from the three-letter-code matcher is a bare
\* three-letter uppercase token of the text, never the head of a longer word.
C11_CodeIsBareToken ==
    \A k \in Current :
        LET text == race_control_messages[k].Message
        IN  (DriverFromText(k) /\ NameHits(text) = {} /\ CodeHits(text) # {}) =>
                \E i \in BareCodeHits(text) :
                    Annotation(k).Driver = SubSeq(text, i, i + 2)

\* C12: the annotation of a gated row without Driver and CarNumber whose text
\* holds no car-number pattern, no First Last name and no bare three-letter
\* code has the driver 'Unknown' and the car number 'Unknown'.
C12_NothingFoundIsUnknown ==
    \A k \in Current :
        LET row == race_control_messages[k]
        IN  (/\ Gated(k) /\ isna(row.Driver) /\ isna(row.CarNumber)
             /\ CarHits(lower(row.Message)) = {}
             /\ NameHits(row.Message) = {}
             /\ BareCodeHits(row.Message) = {}) =>
                /\ Annotation(k).Driver = Unknown
                /\ Annotation(k).Car_Number = Unknown

\* the positions of the text at which 'lap', one blank and a number stand, and
\* those at which 'lap', any blanks (also none) and a number stand
LapBlankHits(text) ==
    {i \in 1..Len(text) :
        /\ LitAt(text, i, <<"l","a","p"," ">>)
        /\ DigitRunEnd(text, i + 4) > i + 4}
LapHits(text) ==
    {i \in 1..Len(text) :
        /\ LitAt(text, i, <<"l","a","p">>)
        /\ DigitRunEnd(text, SpaceRunEnd(text, i + 3)) > SpaceRunEnd(text, i + 3)}

\* the number that stands after 'lap' and its blanks at position i
LapNumberAt(text, i) ==
    SubSeq(text, SpaceRunEnd(text, i + 3), DigitRunEnd(text, SpaceRunEnd(text, i + 3)) - 1)

\* C13 as stated: the lap of the annotation of a gated row whose lower-cased
\* text holds 'lap' followed by a number is the number of the leftmost such
\* occurrence, whatever the lap table and SessionTime are.
C13_LeftmostLapNumber ==
    \A k \in Current :
        LET text == lower(race_control_messages[k].Message)
        IN  (Gated(k) /\ LapHits(text) # {}) =>
                Annotation(k).Lap = LapNumberAt(text, Min(LapHits(text)))

\* C13 amended: the lap is the number of the leftmost 'lap', one blank, number;
\* only for a text without such an occurrence it is the number of the leftmost
\* 'lap' followed by any blanks and a number; the lap table and SessionTime
\* are not consulted in either case.
C13_LapBlankNumberFirst ==
    \A k \in Current :
        LET text == lower(race_control_messages[k].Message)
        IN  (Gated(k) /\ LapHits(text) # {}) =>
                Annotation(k).Lap =
                    IF LapBlankHits(text) # {}
                    THEN LapNumberAt(text, Min(LapBlankHits(text)))
                    ELSE LapNumberAt(text, Min(LapHits(text)))

\* C13 witness: a row with a lap in its text and a SessionTime by which a lap
\* of the lap table has started; the annotation has the lap of the text.
C13_Witness ==
    \E k \in Current :
        LET row == race_control_messages[k]
        IN  /\ Gated(k)
            /\ LapBlankHits(lower(row.Message)) # {}
            /\ notna(row.SessionTime)
            /\ laps_started(laps, Val(row.SessionTime)) # <<>>
            /\ Annotation(k).Lap = <<"1","2">>

\* the lap table is sorted by LapNumber
SortedByLapNumber ==
    \A i, j \in 1..Len(laps) : i < j => laps[i].LapNumber <= laps[j].LapNumber

\* the rows of the lap table that have started by the time t
StartedBy(t) ==
    {i \in 1..Len(laps) : notna(laps[i].LapStartTime) /\ Val(laps[i].LapStartTime) <= t}

\* C14: for a gated row without a lap in its text and a lap table sorted by
\* LapNumber, the lap of the annotation is the LapNumber of the row with the
\* greatest LapStartTime <= SessionTime; it is 'Unknown' when the lap table is
\* empty, when no lap has started by SessionTime and when the row has no
\* SessionTime.
C14_LapOfGreatestStart ==
    \A k \in Current :
        LET row == race_control_messages[k]
        IN  (/\ Gated(k)
             /\ isna(first_lap_match(1, lower(row.Message)))
             /\ SortedByLapNumber) =>
                IF isna(row.SessionTime) \/ StartedBy(Val(row.SessionTime)) = {}
                THEN Annotation(k).Lap = Unknown
                ELSE \E i \in StartedBy(Val(row.SessionTime)) :
                        /\ \A j \in StartedBy(Val(row.SessionTime)) :
                               Val(laps[j].LapStartTime) <= Val(laps[i].LapStartTime)
                        /\ Annotation(k).Lap = DecStr(laps[i].LapNumber)

\* the texts that stand somewhere in s, and those of digits only
Substrings(s) == {SubSeq(s, i, j) : i \in 1..Len(s), j \in 1..Len(s)} \ {<<>>}
DigitSubstrings(s) == {t \in Substrings(s) : \A i \in 1..Len(t) : IsDigit(t[i])}

\* the values the extraction can take for row k: from the record, from the
\* results table, from the text and from the lap table
DriverValues(k) ==
    (IF notna(race_control_messages[k].Driver)
     THEN {Val(race_control_messages[k].Driver)} ELSE {})
        \cup {results[r].BroadcastName : r \in 1..Len(results)}
        \cup Substrings(race_control_messages[k].Message)
CarNumberValues(k) ==
    (IF notna(race_control_messages[k].CarNumber)
     THEN {Val(race_control_messages[k].CarNumber)} ELSE {})
        \cup DigitSubstrings(race_control_messages[k].Message)
LapValues(k) ==
    DigitSubstrings(race_control_messages[k].Message)
        \cup {DecStr(laps[l].LapNumber) : l \in 1..Len(laps)}

\* C20: the penalty loop never fails: no error state is reached, and the row
\* it has just been through, whatever its text, its Driver, CarNumber and
\* SessionTime cells, the results and the lap table are, has an annotation
\* whose driver, car number and lap are each an extracted value or 'Unknown'.
C20_NeverFails ==
    /\ pc # "error"
    /\ \A k \in Current :
           Gated(k) =>
               /\ Len(penalties_data) >= 1
               /\ Annotation(k).Driver \in {Unknown} \cup DriverValues(k)
               /\ Annotation(k).Car_Number \in {Unknown} \cup CarNumberValues(k)
               /\ Annotation(k).Lap \in {Unknown} \cup LapValues(k)

\* C20 witness: a row whose SessionTime cannot be parsed, with laps in the lap
\* table and no lap in its text, has been annotated with the lap 'Unknown'.
C20_Witness ==
    \E k \in Current :
        /\ Gated(k)
        /\ race_control_messages[k].SessionTime = Malformed
        /\ laps # <<>>
        /\ Annotation(k).Lap = Unknown

C23_InputsUnchanged ==
    [][/\ race_control_messages' = race_control_messages
       /\ results' = results
       /\ laps' = laps]_vars

\* C23 witness: the page is through a feed with an annotation and a Category
\* column on the copy, and the rows of the message table have no such column.
C23_Witness ==
    /\ pc = "done"
    /\ Len(penalties_data) >= 1
    /\ Len(messages_df) = Len(race_control_messages)
    /\ Len(messages_df) >= 2
    /\ \A k \in 1..Len(race_control_messages) :
           /\ DOMAIN race_control_messages[k] = {"Message", "Driver", "CarNumber", "SessionTime"}
           /\ messages_df[k].Message = race_control_messages[k].Message

\* C24: every message of the message table whose lower-cased text passes the
\* penalty gate is categorized Penalty.
C24_GatedIsPenaltyCategory ==
    \A k \in 1..Len(messages_df) :
        ContainsAny(lower(messages_df[k].Message), GateWords)
            => messages_df[k].Category = "Penalty"

\* the text states a duration of exactly n seconds: n, a blank or a hyphen and
\* 'sec', with no digit in front of n
StatesSeconds(text, n) ==
    \E i \in 1..Len(text) :
        /\ LitAt(text, i, n \o <<" ","s","e","c">>) \/ LitAt(text, i, n \o <<"-","s","e","c">>)
        /\ (i = 1 \/ ~IsDigit(text[i - 1]))

\* C26: an annotation is typed 5 Second Time Penalty only when its text states
\* a duration of exactly 5 seconds, 10 Second only for exactly 10 and 30 Second
\* only for exactly 30.
C26_ExactDuration ==
    \A k \in Current :
        LET text == lower(race_control_messages[k].Message)
        IN  Gated(k) =>
                /\ Annotation(k).Penalty_Type = "5 Second Time Penalty"
                       => StatesSeconds(text, <<"5">>)
                /\ Annotation(k).Penalty_Type = "10 Second Time Penalty"
                       => StatesSeconds(text, <<"1","0">>)
                /\ Annotation(k).Penalty_Type = "30 Second Time Penalty"
                       => StatesSeconds(text, <<"3","0">>)

\* the positions of the text at which the compact form stands: an 'l' directly
\* followed by digits
CompactHits(text) ==
    {i \in 1..Len(text) : LitAt(text, i, <<"l">>) /\ DigitRunEnd(text, i + 1) > i + 1}

\* C27: the compact form decides the lap of an annotation only when the text
\* holds no 'lap' followed by blanks (or none) and a number: then the lap is
\* the number of the leftmost compact form; when the text holds both, the lap
\* is a number that stands after 'lap', also with the compact form earlier in
\* the text.
C27_CompactFormLast ==
    \A k \in Current :
        LET text == lower(race_control_messages[k].Message)
        IN  Gated(k) =>
                /\ (LapHits(text) # {} /\ CompactHits(text) # {}) =>
                       Annotation(k).Lap \in {LapNumberAt(text, i) : i \in LapHits(text)}
                /\ (LapHits(text) = {} /\ CompactHits(text) # {}) =>
                       Annotation(k).Lap =
                           SubSeq(text, Min(CompactHits(text)) + 1,
                                  DigitRunEnd(text, Min(CompactHits(text)) + 1) - 1)

\* C27 witness: a text with the compact form before a 'lap' with its number,
\* annotated with the number that stands after 'lap'.
C27_Witness ==
    \E k \in Current :
        LET text == lower(race_control_messages[k].Message)
        IN  /\ Gated(k)
            /\ LapHits(text) # {} /\ CompactHits(text) # {}
            /\ Min(CompactHits(text)) < Min(LapHits(text))
            /\ Annotation(k).Lap = LapNumberAt(text, Min(LapHits(text)))
            /\ Annotation(k).Lap # <<"1","5">>

\* the page is past the penalty loop and its summary
Summarized == pc \in {"messages", "done"}

\* the rows of the feed that pass the penalty gate
GatedRows == {k \in 1..Len(race_control_messages) : Gated(k)}

\* C28: after the loop went through a feed the penalties list holds one row
\* for each message that passes the gate and none for another; the total
\* written is the number of these messages, and the notice 'No penalties
\* issued' is shown exactly when the feed has none.
C28_OneRowPerGatedMessage ==
    Summarized =>
        /\ Len(penalties_data) = Cardinality(GatedRows)
        /\ \A k \in GatedRows : Annotation(k).Message = race_control_messages[k].Message
        /\ GatedRows # {} => total_penalties = Some(Cardinality(GatedRows))
        /\ no_penalties <=> GatedRows = {}
        /\ no_penalties => isna(total_penalties)

\* C28 witness: a feed of a penalty message and of another message, with the
\* total 1 and without the notice.
C28_Witness ==
    /\ Summarized
    /\ Len(race_control_messages) = 2
    /\ Cardinality(GatedRows) = 1
    /\ total_penalties = Some(1)
    /\ ~no_penalties

\* the penalties list and the table shown hold the same rows, each as often
SameRows ==
    /\ Len(display_penalties) = Len(penalties_data)
    /\ \E p \in [1..Len(penalties_data) -> 1..Len(penalties_data)] :
           /\ \A i, j \in 1..Len(penalties_data) : i # j => p[i] # p[j]
           /\ \A i \in 1..Len(penalties_data) :
                  /\ display_penalties[i].Lap = penalties_data[p[i]].Lap
                  /\ display_penalties[i].Driver = penalties_data[p[i]].Driver
                  /\ display_penalties[i].Car_Number = penalties_data[p[i]].Car_Number
                  /\ display_penalties[i].Penalty_Type = penalties_data[p[i]].Penalty_Type
                  /\ display_penalties[i].Penalty_Details = penalties_data[p[i]].Penalty_Details

\* the lap of a row of the table shown is a number
NumericLap(i) == display_penalties[i].Lap # Unknown

\* C29: in the penalties table shown the rows with a numeric lap stand in
\* non-decreasing order of the lap as a number, every row with the lap
\* 'Unknown' stands after all of them, and the table holds the rows of the
\* penalties list, each as often as the list does.
C29_SortedByLapNumber ==
    (Summarized /\ penalties_data # <<>>) =>
        /\ SameRows
        /\ \A i, j \in 1..Len(display_penalties) :
               i < j =>
                   /\ NumericLap(j) => NumericLap(i)
                   /\ (NumericLap(i) /\ NumericLap(j)) =>
                          ParseNat(display_penalties[i].Lap) <= ParseNat(display_penalties[j].Lap)

\* C29 witness: the list has lap 12 before lap 9, the table shown lap 9 before
\* lap 12.
C29_Witness ==
    /\ Summarized
    /\ Len(penalties_data) = 2
    /\ penalties_data[1].Lap = <<"1","2">>
    /\ penalties_data[2].Lap = <<"9">>
    /\ Len(display_penalties) = 2
    /\ display_penalties[1].Lap = <<"9">>
    /\ display_penalties[2].Lap = <<"1","2">>

(***************************************************************************)
(* Properties of the duration formatting                                   *)
(***************************************************************************)
\* C3: format_laptime and format_race_time of a negative duration are "N/A".
C3_NegativeIsNA ==
    (notna(time_obj) /\ Val(time_obj) < 0) =>
        /\ notna(LapTime_Formatted) => Val(LapTime_Formatted) = NA
        /\ notna(Time_Formatted) => Val(Time_Formatted) = NA

\* a number below 100 in two digits, a number below 1000 in three
TwoDigits(n) == <<DigitChars[(n \div 10) + 1], DigitChars[(n % 10) + 1]>>
ThreeDigits(n) ==
    <<DigitChars[(n \div 100) + 1], DigitChars[((n \div 10) % 10) + 1], DigitChars[(n % 10) + 1]>>

\* SS.mmm of a number of milliseconds
SecondsText(ms) == TwoDigits(ms \div 1000) \o <<".">> \o ThreeDigits(ms % 1000)

\* the ticks of a duration rounded to the nearest millisecond
RoundMs(ticks) == (2 * ticks + TicksPerMs) \div (2 * TicksPerMs)

\* the cell holds a duration that is not negative
NonNegative == notna(time_obj) /\ Val(time_obj) >= 0

\* the text is digits ':' two digits '.' three digits
LapTimeShape(t) ==
    \E c \in 2..Len(t) :
        /\ t[c] = ":"
        /\ \A i \in 1..(c - 1) : IsDigit(t[i])
        /\ Len(t) = c + 6
        /\ IsDigit(t[c + 1]) /\ IsDigit(t[c + 2])
        /\ t[c + 3] = "."
        /\ IsDigit(t[c + 4]) /\ IsDigit(t[c + 5]) /\ IsDigit(t[c + 6])

\* C15: format_laptime of a duration that is not negative is digits, ':', two
\* digits, '.', three digits.
C15_LapTimeShape ==
    (NonNegative /\ notna(LapTime_Formatted)) => LapTimeShape(Val(LapTime_Formatted))

\* C15 witness: a duration with less than ten seconds after its minutes, which
\* needs the zero in front of the seconds.
C15_Witness ==
    /\ NonNegative
    /\ notna(LapTime_Formatted)
    /\ Val(LapTime_Formatted) = <<"2",":","0","0",".","0","4","0">>

\* C16: format_laptime of a duration of whole milliseconds that is not negative
\* is the minutes floor(s / 60), not bounded by the hour, ':', and s mod 60 as
\* SS.mmm; 83.456 s gives 1:23.456.
C16_LapTimeMinutesSeconds ==
    (NonNegative /\ Val(time_obj) % TicksPerMs = 0 /\ notna(LapTime_Formatted)) =>
        LET ms == Val(time_obj) \div TicksPerMs
        IN  /\ Val(LapTime_Formatted) =
                   DecStr(ms \div 60000) \o <<":">> \o SecondsText(ms % 60000)
            /\ ms = 83456 =>
                   Val(LapTime_Formatted) = <<"1",":","2","3",".","4","5","6">>

\* C16 witness: a duration of more than an hour, formatted with 62 minutes.
C16_Witness ==
    /\ notna(time_obj)
    /\ Val(time_obj) = 3725040 * TicksPerMs
    /\ notna(LapTime_Formatted)
    /\ Val(LapTime_Formatted) = <<"6","2",":","0","5",".","0","4","0">>

\* C17: format_race_time of a duration of an hour or more is H:MM:SS.mmm with
\* H = floor(s / 3600), MM = floor((s mod 3600) / 60) in two digits, 00..59,
\* and SS.mmm = s mod 60; 3725.040 s gives 1:02:05.040.
C17_RaceTimeWithHours ==
    (notna(time_obj) /\ Val(time_obj) >= 3600 * TicksPerSecond /\ notna(Time_Formatted)) =>
        LET ticks == Val(time_obj)
            H == ticks \div (3600 * TicksPerSecond)
            MM == (ticks % (3600 * TicksPerSecond)) \div (60 * TicksPerSecond)
        IN  /\ MM \in 0..59
            /\ Val(Time_Formatted) =
                   DecStr(H) \o <<":">> \o TwoDigits(MM) \o <<":">>
                       \o SecondsText(RoundMs(ticks % (60 * TicksPerSecond)))
            /\ ticks = 3725040 * TicksPerMs =>
                   Val(Time_Formatted) = <<"1",":","0","2",":","0","5",".","0","4","0">>

\* C17 witness: 1 h 59 min 23.456 s, formatted with its hour.
C17_Witness ==
    /\ notna(time_obj)
    /\ Val(time_obj) = 7163456 * TicksPerMs
    /\ notna(Time_Formatted)
    /\ Val(Time_Formatted) = <<"1",":","5","9",":","2","3",".","4","5","6">>

\* C18: format_race_time of a duration of less than an hour that is not
\* negative equals format_laptime of it; 65.5 s gives 1:05.500.
C18_RaceTimeBelowHour ==
    (/\ NonNegative /\ Val(time_obj) < 3600 * TicksPerSecond
     /\ notna(Time_Formatted)) =>
        /\ Val(Time_Formatted) = format_laptime(time_obj)
        /\ notna(LapTime_Formatted) => Time_Formatted = LapTime_Formatted
        /\ Val(time_obj) = 65500 * TicksPerMs =>
               Val(Time_Formatted) = <<"1",":","0","5",".","5","0","0">>

\* C18 witness: 65.5 s formatted by both functions.
C18_Witness ==
    /\ notna(time_obj)
    /\ Val(time_obj) = 65500 * TicksPerMs
    /\ notna(Time_Formatted) /\ notna(LapTime_Formatted)
    /\ Val(Time_Formatted) = <<"1",":","0","5",".","5","0","0">>
    /\ Val(LapTime_Formatted) = <<"1",":","0","5",".","5","0","0">>

\* C19: format_laptime and format_race_time of a missing duration are exactly
\* N/A, and those of a duration that is not negative are never N/A.
C19_NAIffMissing ==
    /\ isna(time_obj) =>
           /\ notna(LapTime_Formatted) => Val(LapTime_Formatted) = <<"N","/","A">>
           /\ notna(Time_Formatted) => Val(Time_Formatted) = <<"N","/","A">>
    /\ NonNegative =>
           /\ notna(LapTime_Formatted) => Val(LapTime_Formatted) # <<"N","/","A">>
           /\ notna(Time_Formatted) => Val(Time_Formatted) # <<"N","/","A">>

\* C19 witness: a missing duration formatted by both functions.
C19_Witness ==
    /\ isna(time_obj)
    /\ notna(LapTime_Formatted) /\ notna(Time_Formatted)
    /\ Val(LapTime_Formatted) = <<"N","/","A">>
    /\ Val(Time_Formatted) = <<"N","/","A">>

\* the seconds field of a formatted duration: its last six characters
SecondsField(t) == SubSeq(t, Len(t) - 5, Len(t))

\* C25: the seconds field that format_laptime and format_race_time print for
\* a duration that is not negative is never 60.000, also when the duration
\* lies between two milliseconds.
C25_SecondsBelowSixty ==
    NonNegative =>
        /\ notna(LapTime_Formatted) =>
               SecondsField(Val(LapTime_Formatted)) # <<"6","0",".","0","0","0">>
        /\ notna(Time_Formatted) =>
               SecondsField(Val(Time_Formatted)) # <<"6","0",".","0","0","0">>

(***************************************************************************)
(* Properties of the Fastest Lap Per Driver table                          *)
(***************************************************************************)
\* the drivers with a lap whose LapTime is not missing, and the least of the
\* lap times of such a driver
TimedDrivers == {laps[i].Driver : i \in {j \in 1..Len(laps) : notna(laps[j].LapTime)}}
LeastLapTime(d) ==
    LET times == {Val(laps[i].LapTime) :
                     i \in {j \in 1..Len(laps) : laps[j].Driver = d /\ notna(laps[j].LapTime)}}
    IN  CHOOSE t \in times : \A u \in times : t <= u

====
